---- MODULE Spec2Model ----
(***************************************************************************)
(* Roommate assignment: preference normalizer, compatibility scorer,      *)
(* integer-program builder and assignment decoder of roommateSolver.js,   *)
(* together with the handleRun caller of the browser front end.           *)
(*                                                                         *)
(* Tables parsed from CSV are sequences of rows; a row is a function from  *)
(* column names to cell strings.  A column that is absent from a row reads *)
(* as Undefined, exactly as a missing property does.                       *)
(***************************************************************************)
EXTENDS Integers, Sequences, FiniteSets, TLC

VARIABLES files, parsed, loading, outputUrl, error, status,
          pc, norm, model, solveCalls, solverResult, returned, score

\* files         filesRef.current: the keys for which a file was chosen
\* parsed        the parsed tables, [ok |-> FALSE] standing for null
\* loading, outputUrl, error, status    the React state of App
\* pc            "solving" while solveRoommateAssignment awaits glpk.solve
\* norm          categories, weights, nameList, genderList, mappings, prefMatrix
\* model         varNames and the lp object
\* solveCalls    calls of glpk.solve made for the current request
\* solverResult  the answer of glpk.solve
\* returned      what solveRoommateAssignment returned, or that it threw
\* score         the last value computed by compatibility(i, j)
vars == <<files, parsed, loading, outputUrl, error, status,
          pc, norm, model, solveCalls, solverResult, returned, score>>

(***************************************************************************)
(* Bounds of the model.                                                    *)
(***************************************************************************)
MaxResidents == 4
MaxRooms == 2
MaxVars == 6
MaxKeyRows == 2

(***************************************************************************)
(* JavaScript value coercions used by the solver.                          *)
(***************************************************************************)
Undefined == "<undefined>"

\* p[col] on a parsed row.
Get(row, col) == IF col \in DOMAIN row THEN row[col] ELSE Undefined

\* Truthiness of a cell: undefined and the empty string are falsy, every
\* other string (including "0") is truthy.
Truthy(v) == v # Undefined /\ v # ""

\* Number(v) for the strings that convert to a number.  The empty string
\* converts to 0; strings outside the table convert to NaN.
NumberTable ==
    ("" :> 0) @@ ("0" :> 0) @@ ("1" :> 1) @@ ("2" :> 2) @@ ("3" :> 3)
    @@ ("4" :> 4) @@ ("5" :> 5) @@ ("-1" :> (0 - 1))

\* isNaN(v): v is coerced with Number first; undefined coerces to NaN.
IsNaN(v) == v \notin DOMAIN NumberTable

ToNumber(v) == NumberTable[v]

\* parseFloat(v): unlike Number, the empty string does not parse.
ParseFloat(v) == NumberTable[v]

Abs(x) == IF x < 0 THEN 0 - x ELSE x

Scales == <<"1", "2", "3", "4">>

(***************************************************************************)
(* Preference normalizer.                                                  *)
(***************************************************************************)
RECURSIVE FilterKey(_)
\* key.filter(k => k.Weighting && k.Category)
FilterKey(key) ==
    IF key = <<>> THEN <<>>
    ELSE LET k == Head(key)
         IN  IF Truthy(Get(k, "Weighting")) /\ Truthy(Get(k, "Category"))
             THEN <<k>> \o FilterKey(Tail(key))
             ELSE FilterKey(Tail(key))

Categories(key) ==
    LET f == FilterKey(key) IN [n \in 1..Len(f) |-> f[n]["Category"]]

Weights(key) ==
    LET f == FilterKey(key) IN [n \in 1..Len(f) |-> ParseFloat(f[n]["Weighting"])]

RECURSIVE RowMapping(_, _, _)
\* [1,2,3,4].forEach(scale => { if (k[scale]) mappings[cat][k[scale]] = scale })
\* m is the object built so far; a later scale overwrites an equal label.
RowMapping(k, s, m) ==
    IF s > Len(Scales) THEN m
    ELSE LET label == Get(k, Scales[s])
         IN  IF Truthy(label)
             THEN RowMapping(k, s + 1, (label :> s) @@ m)
             ELSE RowMapping(k, s + 1, m)

EmptyObject == [x \in {} |-> 0]

RECURSIVE Mappings(_, _)
\* key.forEach(k => { if (k.Category) { mappings[k.Category] = {}; ... } })
\* a later row for the same category replaces the earlier object.
Mappings(key, m) ==
    IF key = <<>> THEN m
    ELSE LET k == Head(key)
             cat == Get(k, "Category")
         IN  IF Truthy(cat)
             THEN Mappings(Tail(key), (cat :> RowMapping(k, 1, EmptyObject)) @@ m)
             ELSE Mappings(Tail(key), m)

\* One cell of prefMatrix.
NormalizeCell(p, cat, mappings) ==
    LET val == Get(p, cat)
    IN  IF ~IsNaN(val) THEN ToNumber(val)
        ELSE IF cat \in DOMAIN mappings /\ val \in DOMAIN mappings[cat]
             THEN mappings[cat][val]
             ELSE 2

PrefMatrix(preferences, key) ==
    LET cats == Categories(key)
        mappings == Mappings(key, EmptyObject)
    IN  [p \in 1..Len(preferences) |->
            [c \in 1..Len(cats) |-> NormalizeCell(preferences[p], cats[c], mappings)]]

\* Everything the solver derives before it builds the program.
Normalize(preferences, key) ==
    [categories |-> Categories(key),
     weights    |-> Weights(key),
     nameList   |-> [p \in 1..Len(preferences) |-> Get(preferences[p], "Name")],
     genderList |-> [p \in 1..Len(preferences) |-> Get(preferences[p], "Gender")],
     mappings   |-> Mappings(key, EmptyObject),
     prefMatrix |-> PrefMatrix(preferences, key)]

(***************************************************************************)
(* Compatibility scorer.  Resident indices are 0-based as in the source.   *)
(***************************************************************************)
RECURSIVE CompatSum(_, _, _, _)
CompatSum(n, i, j, k) ==
    IF k > Len(n.categories) THEN 0
    ELSE n.weights[k] * Abs(n.prefMatrix[i + 1][k] - n.prefMatrix[j + 1][k])
         + CompatSum(n, i, j, k + 1)

RECURSIVE SignedSum(_, _, _, _)
SignedSum(n, i, j, k) ==
    IF k > Len(n.categories) THEN 0
    ELSE n.weights[k] * (n.prefMatrix[i + 1][k] - n.prefMatrix[j + 1][k])
         + SignedSum(n, i, j, k + 1)

\* variant: the difference is summed without Math.abs
compatibilitySigned(n, i, j) == SignedSum(n, i, j, 1)

compatibility(n, i, j) == CompatSum(n, i, j, 1)

(***************************************************************************)
(* Variable names.  The source names a variable by the template string     *)
(* x_${i}_${j}_${r} and the decoder recovers the indices with split('_').  *)
(* A name is modelled as its sequence of characters.                       *)
(***************************************************************************)
DigitChars == <<"0", "1", "2", "3", "4", "5", "6", "7", "8", "9">>

RECURSIVE Digits(_)
\* decimal rendering of a non-negative integer inside a template string
Digits(n) ==
    IF n < 10 THEN <<DigitChars[n + 1]>>
    ELSE Digits(n \div 10) \o <<DigitChars[(n % 10) + 1]>>

VarName(i, j, r) ==
    <<"x", "_">> \o Digits(i) \o <<"_">> \o Digits(j) \o <<"_">> \o Digits(r)

RECURSIVE SplitFrom(_, _, _)
\* v.split('_'): cur is the token being read, k the next character position
SplitFrom(v, k, cur) ==
    IF k > Len(v) THEN <<cur>>
    ELSE IF v[k] = "_" THEN <<cur>> \o SplitFrom(v, k + 1, <<>>)
    ELSE SplitFrom(v, k + 1, Append(cur, v[k]))

Split(v) == SplitFrom(v, 1, <<>>)

RECURSIVE IndexOf(_)
\* a token of digits used as an array index or passed to Number
IndexOf(tok) ==
    IF tok = <<>> THEN 0
    ELSE LET d == CHOOSE c \in 1..Len(DigitChars) : DigitChars[c] = tok[Len(tok)]
         IN  10 * IndexOf(SubSeq(tok, 1, Len(tok) - 1)) + (d - 1)

\* varNames.includes(v)
Includes(seq, v) == \E k \in 1..Len(seq) : seq[k] = v

(***************************************************************************)
(* Model builder.                                                          *)
(***************************************************************************)
RoomCaps(rooms) == [r \in 1..Len(rooms) |-> ToNumber(Get(rooms[r], "Capacity"))]

\* variant: the gender test is dropped
MixedGenderIgnored(n, i, j) == FALSE

\* genderList[i] !== genderList[j]
MixedGender(n, i, j) == n.genderList[i + 1] # n.genderList[j + 1]

RECURSIVE VarLoop(_, _, _, _, _)
\* The triple loop that creates the variables: rooms outermost, then i, then
\* j > i; a pair whose gender labels differ is skipped.
VarLoop(n, nRooms, r, i, j) ==
    LET nRes == Len(n.nameList)
    IN  IF r >= nRooms THEN <<>>
        ELSE IF i >= nRes THEN VarLoop(n, nRooms, r + 1, 0, 1)
        ELSE IF j >= nRes THEN VarLoop(n, nRooms, r, i + 1, i + 2)
        ELSE IF MixedGender(n, i, j)
             THEN VarLoop(n, nRooms, r, i, j + 1)
        ELSE <<[name |-> VarName(i, j, r), coef |-> compatibility(n, i, j)]>>
             \o VarLoop(n, nRooms, r, i, j + 1)

ObjectiveVars(n, nRooms) == VarLoop(n, nRooms, 0, 0, 1)

RECURSIVE ResVars(_, _, _, _, _)
\* the terms of res_i: every room r and every other resident j whose
\* variable with i exists
ResVars(varNames, nRes, nRooms, i, rj) ==
    LET r == rj[1]
        j == rj[2]
    IN  IF r >= nRooms THEN <<>>
        ELSE IF j >= nRes THEN ResVars(varNames, nRes, nRooms, i, <<r + 1, 0>>)
        ELSE IF i = j THEN ResVars(varNames, nRes, nRooms, i, <<r, j + 1>>)
        ELSE LET v == IF i < j THEN VarName(i, j, r) ELSE VarName(j, i, r)
             IN  (IF Includes(varNames, v) THEN <<[name |-> v, coef |-> 1]>> ELSE <<>>)
                 \o ResVars(varNames, nRes, nRooms, i, <<r, j + 1>>)

\* variant: only the first room is scanned
ResidentTermsFirstRoom(varNames, nRes, nRooms, i) ==
    ResVars(varNames, nRes, IF nRooms > 1 THEN 1 ELSE nRooms, i, <<0, 0>>)

ResidentTerms(varNames, nRes, nRooms, i) ==
    ResVars(varNames, nRes, nRooms, i, <<0, 0>>)

\* variant: an upper bound of 1 in place of the fixed bound
ResidentBoundsAtMostOne == [type |-> "GLP_UP", ub |-> 1, lb |-> 0]

\* bnds of res_i: fixed at 1
ResidentBounds == [type |-> "GLP_FX", ub |-> 1, lb |-> 1]

ResidentRow(varNames, nRes, nRooms, i) ==
    [name |-> <<"r", "e", "s", "_">> \o Digits(i),
     vars |-> ResidentTerms(varNames, nRes, nRooms, i),
     bnds |-> ResidentBounds]

RECURSIVE RoomVars(_, _, _, _, _)
\* the terms of room_r: every pair i < j whose variable in r exists
RoomVars(varNames, nRes, r, i, j) ==
    IF i >= nRes THEN <<>>
    ELSE IF j >= nRes THEN RoomVars(varNames, nRes, r, i + 1, i + 2)
    ELSE LET v == VarName(i, j, r)
         IN  (IF Includes(varNames, v) THEN <<[name |-> v, coef |-> 2]>> ELSE <<>>)
             \o RoomVars(varNames, nRes, r, i, j + 1)

\* variant: a pair counts 1 against the capacity
RoomRowUnitCoef(varNames, nRes, roomCaps, r) ==
    LET terms == RoomVars(varNames, nRes, r, 0, 1)
    IN  [name |-> <<"r", "o", "o", "m", "_">> \o Digits(r),
         vars |-> [k \in 1..Len(terms) |-> [name |-> terms[k].name, coef |-> 1]],
         bnds |-> [type |-> "GLP_UP", ub |-> roomCaps[r + 1], lb |-> 0]]

\* variant: the capacity is taken as a number of pairs
RoomRowPairCapacity(varNames, nRes, roomCaps, r) ==
    [name |-> <<"r", "o", "o", "m", "_">> \o Digits(r),
     vars |-> RoomVars(varNames, nRes, r, 0, 1),
     bnds |-> [type |-> "GLP_UP", ub |-> 2 * roomCaps[r + 1], lb |-> 0]]

RoomRow(varNames, nRes, roomCaps, r) ==
    [name |-> <<"r", "o", "o", "m", "_">> \o Digits(r),
     vars |-> RoomVars(varNames, nRes, r, 0, 1),
     bnds |-> [type |-> "GLP_UP", ub |-> roomCaps[r + 1], lb |-> 0]]

\* The lp object handed to the solver, with the varNames registry.
BuildModel(n, rooms) ==
    LET roomCaps == RoomCaps(rooms)
        nRooms   == Len(roomCaps)
        nRes     == Len(n.nameList)
        objVars  == ObjectiveVars(n, nRooms)
        varNames == [k \in 1..Len(objVars) |-> objVars[k].name]
    IN  [varNames  |-> varNames,
         binaries  |-> varNames,
         objective |-> [direction |-> "GLP_MIN", vars |-> objVars],
         subjectTo |->
             [k \in 1..(nRes + nRooms) |->
                 IF k <= nRes
                 THEN ResidentRow(varNames, nRes, nRooms, k - 1)
                 ELSE RoomRow(varNames, nRes, roomCaps, k - nRes - 1)]]

(***************************************************************************)
(* Solver adapter.  glpk.solve is an external collaborator: it receives    *)
(* the lp object and answers with a result object.  The source reads only  *)
(* result.result and result.result.vars of the answer.  An answer that     *)
(* carries vars carries a 0/1 value per variable that satisfies every row  *)
(* of subjectTo; an answer without them reports that no solution was       *)
(* found.  The order of the entries of vars is the solver's own.           *)
(***************************************************************************)
NameSet(lp) == {lp.varNames[k] : k \in 1..Len(lp.varNames)}

\* the 0/1 valuation that accepts exactly the variables of S
Valuation(lp, S) == [v \in NameSet(lp) |-> IF v \in S THEN 1 ELSE 0]

RECURSIVE TermSum(_, _, _)
TermSum(terms, val, k) ==
    IF k > Len(terms) THEN 0
    ELSE terms[k].coef * val[terms[k].name] + TermSum(terms, val, k + 1)

\* a row of subjectTo under its bound kind: GLP_FX fixes the sum at lb = ub,
\* GLP_UP bounds it from above by ub
RowHolds(row, val) ==
    LET sum == TermSum(row.vars, val, 1)
    IN  CASE row.bnds.type = "GLP_FX" -> sum = row.bnds.lb
          [] row.bnds.type = "GLP_UP" -> sum <= row.bnds.ub

Feasible(lp, val) ==
    \A k \in 1..Len(lp.subjectTo) : RowHolds(lp.subjectTo[k], val)

ObjectiveValue(lp, val) == TermSum(lp.objective.vars, val, 1)

FeasibleSets(lp) == {S \in SUBSET NameSet(lp) : Feasible(lp, Valuation(lp, S))}

\* GLP_MIN: no feasible valuation has a smaller objective value
Optimal(lp, val) ==
    /\ Feasible(lp, val)
    /\ \A S \in FeasibleSets(lp) :
           ObjectiveValue(lp, Valuation(lp, S)) >= ObjectiveValue(lp, val)

\* result.result.vars as the solver lists it: in the order the columns were
\* created, or in the opposite order
ResultVars(lp, val, order) ==
    LET n == Len(lp.varNames)
    IN  [k \in 1..n |->
            LET v == IF order = "created" THEN lp.varNames[k]
                     ELSE lp.varNames[n + 1 - k]
            IN  [name |-> v, value |-> val[v]]]

Orders == {"created", "reversed"}

NoAnswer == [kind |-> "none", status |-> "", vars |-> <<>>]

(***************************************************************************)
(* Assignment decoder.                                                     *)
(***************************************************************************)
\* result.result.vars[v] === 1
Accepted(resultVars, v) ==
    \E k \in 1..Len(resultVars) : resultVars[k].name = v /\ resultVars[k].value = 1

\* rooms[r].Room || r, r being the token cut from the variable name (room
\* indices of the model have a single digit)
RoomLabel(rooms, tok) ==
    LET room == Get(rooms[IndexOf(tok) + 1], "Room")
    IN  IF Truthy(room) THEN room ELSE tok[1]

\* the record pushed for an accepted variable
DecodeVar(v, nameList, rooms) ==
    LET parts == Split(v)
    IN  [a    |-> nameList[IndexOf(parts[2]) + 1],
         b    |-> nameList[IndexOf(parts[3]) + 1],
         room |-> RoomLabel(rooms, parts[4])]

RECURSIVE DecodeLoop(_, _, _, _, _)
\* for (let v of order) if (vars[v] === 1) assignments.push(...)
DecodeLoop(order, resultVars, nameList, rooms, k) ==
    IF k > Len(order) THEN <<>>
    ELSE (IF Accepted(resultVars, order[k])
          THEN <<DecodeVar(order[k], nameList, rooms)>> ELSE <<>>)
         \o DecodeLoop(order, resultVars, nameList, rooms, k + 1)

\* variant: the decoder walks through the keys of the solver's vars
DecodeOrderSolver(lp, resultVars) == [k \in 1..Len(resultVars) |-> resultVars[k].name]

\* the variables the decoder walks through: varNames
DecodeOrder(lp, resultVars) == lp.varNames

\* variant: only the first resident of a pair is recorded
AssignedSetFirstOnly(lp, resultVars) ==
    {IndexOf(Split(v)[2]) : v \in {w \in NameSet(lp) : Accepted(resultVars, w)}}

\* assigned: Number(i) and Number(j) of every accepted variable
AssignedSet(lp, resultVars) ==
    UNION {{IndexOf(Split(v)[2]), IndexOf(Split(v)[3])} :
             v \in {w \in NameSet(lp) : Accepted(resultVars, w)}}

RECURSIVE UnassignedLoop(_, _, _)
UnassignedLoop(assigned, nameList, i) ==
    IF i >= Len(nameList) THEN <<>>
    ELSE (IF i \notin assigned THEN <<nameList[i + 1]>> ELSE <<>>)
         \o UnassignedLoop(assigned, nameList, i + 1)

Decode(lp, resultVars, nameList, rooms) ==
    LET assigned == AssignedSet(lp, resultVars)
    IN  [kind        |-> "ok",
         assignments |-> DecodeLoop(DecodeOrder(lp, resultVars), resultVars,
                                    nameList, rooms, 1),
         unassigned  |-> IF Cardinality(assigned) < Len(nameList)
                         THEN UnassignedLoop(assigned, nameList, 0)
                         ELSE <<>>]

NotReturned == [kind |-> "none", assignments |-> <<>>, unassigned |-> <<>>]
Thrown == [kind |-> "thrown", assignments |-> <<>>, unassigned |-> <<>>]

(***************************************************************************)
(* Output table of handleRun: a header line, a line per pair, a line per   *)
(* unassigned resident.  A line is the tuple of its comma-separated fields.*)
(***************************************************************************)
CsvLines(result) ==
    <<<<"Roommate A", "Roommate B", "Room">>>>
    \o [k \in 1..Len(result.assignments) |->
           <<result.assignments[k].a, result.assignments[k].b,
             result.assignments[k].room>>]
    \o [k \in 1..Len(result.unassigned) |->
           <<result.unassigned[k], "(no roommate)", "">>]

NoUrl == [set |-> FALSE, csv |-> <<>>]

(***************************************************************************)
(* Inputs: the tables a user can upload.                                   *)
(***************************************************************************)
FileKeys == {"preferences", "rooms", "key"}

Names == <<"A", "B", "C", "D", "E", "F">>
Genders == {"M", "F"}
RoomNames == <<"R1", "R2", "R3", "R4">>
Capacities == {"0", "1", "2", "3", "4"}

\* the answers of the residents to the one question of ScenarioKey, by row
ScenarioCodes == <<"1", "1", "4", "3">>

ScenarioKey ==
    <<[Category |-> "cleanliness", Weighting |-> "1"]>>

PreferenceRow(p, gender) ==
    [Name |-> Names[p], Gender |-> gender,
     cleanliness |-> ScenarioCodes[((p - 1) % Len(ScenarioCodes)) + 1]]

PreferenceTables ==
    UNION {{[p \in 1..n |-> PreferenceRow(p, g[p])] : g \in [1..n -> Genders]} :
             n \in 0..MaxResidents}

RoomTables ==
    UNION {{[r \in 1..m |-> [Room |-> RoomNames[r], Capacity |-> c[r]]] :
              c \in [1..m -> Capacities]} : m \in 0..MaxRooms}

KeyTables == {ScenarioKey}

Tables(key) ==
    CASE key = "preferences" -> PreferenceTables
      [] key = "rooms" -> RoomTables
      [] key = "key" -> KeyTables

NotParsed == [ok |-> FALSE, data |-> <<>>]

\* the size of the program the uploaded tables lead to: one variable per
\* room and same-gender pair
VarCount(p) ==
    IF p.preferences.ok /\ p.rooms.ok
    THEN LET t == p.preferences.data
         IN  Len(p.rooms.data)
             * Cardinality({q \in (1..Len(t)) \X (1..Len(t)) :
                              q[1] < q[2] /\ t[q[1]].Gender = t[q[2]].Gender})
    ELSE 0

(***************************************************************************)
(* State after construction of the App component.                          *)
(***************************************************************************)
Init ==
    /\ files = {}
    /\ parsed = [k \in FileKeys |-> NotParsed]
    /\ loading = FALSE
    /\ outputUrl = NoUrl
    /\ error = ""
    /\ status = ""
    /\ pc = "idle"
    /\ norm = Normalize(<<>>, <<>>)
    /\ model = BuildModel(Normalize(<<>>, <<>>), <<>>)
    /\ solveCalls = 0
    /\ solverResult = NoAnswer
    /\ returned = NotReturned
    /\ score = [i |-> 0, j |-> 0, value |-> 0]

solveState == <<pc, norm, model, solveCalls, solverResult, returned, score>>

(***************************************************************************)
(* handleFile: a table is chosen, read and parsed.  Each input is chosen   *)
(* once.                                                                   *)
(***************************************************************************)
HandleFile(key, data) ==
    /\ key \notin files
    /\ LET p == [parsed EXCEPT ![key] = [ok |-> TRUE, data |-> data]]
       IN  /\ VarCount(p) <= MaxVars
           /\ parsed' = p
    /\ files' = files \cup {key}
    /\ error' = ""
    /\ status' = "file loaded and parsed."
    /\ UNCHANGED <<loading, outputUrl>>
    /\ UNCHANGED solveState

\* readFile rejects: the catch branch
HandleFileFails(key) ==
    /\ key \notin files
    /\ files' = files \cup {key}
    /\ parsed' = [parsed EXCEPT ![key] = NotParsed]
    /\ error' = "Failed to read or parse file"
    /\ status' = ""
    /\ UNCHANGED <<loading, outputUrl>>
    /\ UNCHANGED solveState

(***************************************************************************)
(* handleRun.  The button is disabled while loading.                       *)
(***************************************************************************)
CanRun == loading = FALSE /\ pc = "idle"

\* first early return: a file was never chosen
HandleRunMissingFile ==
    /\ CanRun
    /\ files # FileKeys
    /\ error' = "Please upload all three files: preferences, rooms, and key."
    /\ outputUrl' = NoUrl
    /\ status' = ""
    /\ loading' = FALSE
    /\ UNCHANGED <<files, parsed>>
    /\ UNCHANGED solveState

\* second early return: a chosen file did not parse
HandleRunNotParsed ==
    /\ CanRun
    /\ files = FileKeys
    /\ \E k \in FileKeys : ~parsed[k].ok
    /\ error' = "One or more files failed to parse. Please re-upload."
    /\ outputUrl' = NoUrl
    /\ status' = ""
    /\ loading' = FALSE
    /\ UNCHANGED <<files, parsed>>
    /\ UNCHANGED solveState

\* solveRoommateAssignment up to the await of glpk.solve: normalise, score,
\* build the program and hand it to the solver
HandleRun ==
    /\ CanRun
    /\ files = FileKeys
    /\ \A k \in FileKeys : parsed[k].ok
    /\ error' = ""
    /\ outputUrl' = NoUrl
    /\ loading' = TRUE
    /\ status' = "Solving roommate assignment (building model)..."
    /\ norm' = Normalize(parsed.preferences.data, parsed.key.data)
    /\ model' = BuildModel(norm', parsed.rooms.data)
    /\ solveCalls' = 1
    /\ solverResult' = NoAnswer
    /\ returned' = NotReturned
    /\ pc' = "solving"
    /\ UNCHANGED <<files, parsed, score>>

\* variant: a missing solution is decoded as an empty one and published
SolverFailsBestEffort(kind) ==
    /\ pc = "solving"
    /\ solverResult' = [kind |-> kind, status |-> "nosolution", vars |-> <<>>]
    /\ returned' = Decode(model, <<>>, norm.nameList, parsed.rooms.data)
    /\ outputUrl' = [set |-> TRUE, csv |-> CsvLines(returned')]
    /\ status' = "Done! Download your results below."
    /\ loading' = FALSE
    /\ pc' = "idle"
    /\ UNCHANGED <<files, parsed, error, norm, model, solveCalls, score>>

\* the solver answers without result.result ("noresult") or without
\* result.result.vars ("novars"): the throw of the solver, caught by handleRun
SolverFails(kind) ==
    /\ pc = "solving"
    /\ solverResult' = [kind |-> kind, status |-> "nosolution", vars |-> <<>>]
    /\ returned' = Thrown
    /\ error' = "Solver error: GLPK failed to find a solution."
    /\ status' = "No feasible solution found or model error."
    /\ loading' = FALSE
    /\ pc' = "idle"
    /\ UNCHANGED <<files, parsed, outputUrl, norm, model, solveCalls, score>>

\* the solver answers with vars: decode, build the output table, publish it
SolverReturns(S) ==
    /\ pc = "solving"
    /\ Feasible(model, Valuation(model, S))
    /\ \E order \in Orders :
           solverResult' = [kind   |-> "vars",
                            status |-> "solution",
                            vars   |-> ResultVars(model, Valuation(model, S), order)]
    /\ returned' = Decode(model, solverResult'.vars, norm.nameList, parsed.rooms.data)
    /\ outputUrl' = [set |-> TRUE, csv |-> CsvLines(returned')]
    /\ status' = "Done! Download your results below."
    /\ loading' = FALSE
    /\ pc' = "idle"
    /\ UNCHANGED <<files, parsed, error, norm, model, solveCalls, score>>

Next ==
    \/ \E key \in FileKeys \ files : \E data \in Tables(key) : HandleFile(key, data)
    \/ \E key \in FileKeys \ files : HandleFileFails(key)
    \/ HandleRunMissingFile
    \/ HandleRunNotParsed
    \/ HandleRun
    \/ \E kind \in {"noresult", "novars"} : SolverFails(kind)
    \/ \E S \in SUBSET NameSet(model) : SolverReturns(S)

Spec == Init /\ [][Next]_vars

(***************************************************************************)
(* Normalizer and scorer on their own: the key and the answers of two      *)
(* residents are drawn from bounded sets, the normalizer runs, then the    *)
(* scorer runs on one pair of residents.                                   *)
(***************************************************************************)
Row(pairs) == [c \in {q[1] : q \in pairs} |-> (CHOOSE q \in pairs : q[1] = c)[2]]

ScoreKeyRows ==
    { Row({<<"Category", "cleanliness">>, <<"Weighting", "1">>,
           <<"1", "neat">>, <<"4", "messy">>}),
      Row({<<"Category", "cleanliness">>, <<"Weighting", "0">>,
           <<"1", "neat">>, <<"4", "messy">>}),
      Row({<<"Category", "cleanliness">>, <<"Weighting", "-1">>,
           <<"1", "neat">>, <<"2", "">>}),
      Row({<<"Category", "noise">>, <<"Weighting", "2">>,
           <<"1", "quiet">>, <<"3", "loud">>, <<"4", "quiet">>}),
      Row({<<"Category", "noise">>, <<"Weighting", "">>, <<"2", "loud">>}),
      Row({<<"Category", "noise">>, <<"1", "loud">>}),
      Row({<<"Category", "">>, <<"Weighting", "1">>, <<"1", "neat">>}) }

ScoreKeys ==
    UNION {[1..n -> ScoreKeyRows] : n \in 0..MaxKeyRows}

\* a cell is absent (the column is missing from the row), blank, numeric,
\* a label of the key, or a label the key does not know
CleanlinessCells == {Undefined, "", "3", "neat", "messy", "zzz"}
NoiseCells == {Undefined, "quiet", "loud"}

ScoreRow(name, c, q) ==
    Row({<<"Name", name>>, <<"Gender", "M">>}
        \cup (IF c = Undefined THEN {} ELSE {<<"cleanliness", c>>})
        \cup (IF q = Undefined THEN {} ELSE {<<"noise", q>>}))

ScorePreferences ==
    {<<ScoreRow("A", c1, q1), ScoreRow("B", c2, q2)>> :
        c1 \in CleanlinessCells, q1 \in NoiseCells,
        c2 \in CleanlinessCells, q2 \in NoiseCells}

InitScore ==
    /\ files = FileKeys
    /\ \E t \in ScorePreferences : \E k \in ScoreKeys :
          parsed = [preferences |-> [ok |-> TRUE, data |-> t],
                    rooms       |-> [ok |-> TRUE, data |-> <<>>],
                    key         |-> [ok |-> TRUE, data |-> k]]
    /\ loading = FALSE
    /\ outputUrl = NoUrl
    /\ error = ""
    /\ status = ""
    /\ pc = "idle"
    /\ norm = Normalize(<<>>, <<>>)
    /\ model = BuildModel(Normalize(<<>>, <<>>), <<>>)
    /\ solveCalls = 0
    /\ solverResult = NoAnswer
    /\ returned = NotReturned
    /\ score = [i |-> 0, j |-> 0, value |-> 0]

NormalizerStep ==
    /\ pc = "idle"
    /\ norm' = Normalize(parsed.preferences.data, parsed.key.data)
    /\ pc' = "normalized"
    /\ UNCHANGED <<files, parsed, loading, outputUrl, error, status,
                   model, solveCalls, solverResult, returned, score>>

ScorerStep(i, j) ==
    /\ pc = "normalized"
    /\ score' = [i |-> i, j |-> j, value |-> compatibility(norm, i, j)]
    /\ pc' = "scored"
    /\ UNCHANGED <<files, parsed, loading, outputUrl, error, status,
                   norm, model, solveCalls, solverResult, returned>>

NextScore ==
    \/ NormalizerStep
    \/ \E i \in 0..1 : \E j \in 0..1 : ScorerStep(i, j)

SpecScore == InitScore /\ [][NextScore]_vars

(***************************************************************************)
(* Properties.                                                             *)
(***************************************************************************)
\* the program in model was built from the uploaded tables
Built == solveCalls = 1

Residents == parsed.preferences.data
RoomTable == parsed.rooms.data

ResidentIndices == 0..(Len(Residents) - 1)
RoomIndices == 0..(Len(RoomTable) - 1)

\* the row of a resident name (names are distinct)
RowOfName(name) ==
    CHOOSE p \in 1..Len(Residents) : Residents[p].Name = name

SameGenderPairs ==
    {q \in ResidentIndices \X ResidentIndices :
        q[1] < q[2] /\ Residents[q[1] + 1].Gender = Residents[q[2] + 1].Gender}

\* the accepted variables of the solver's answer, as <<room, i, j>>
AcceptedTriples ==
    {t \in RoomIndices \X ResidentIndices \X ResidentIndices :
        t[2] < t[3] /\ Accepted(solverResult.vars, VarName(t[2], t[3], t[1]))}

OddGroup ==
    \E g \in Genders :
        Cardinality({p \in 1..Len(Residents) : Residents[p].Gender = g}) % 2 = 1

\* C1: the builder creates one variable x_i_j_r exactly for every room r and
\* every pair i < j with equal gender labels, and no decoded assignment pairs
\* residents with different gender labels.
C1_VariablesSameGender ==
    Built =>
        /\ NameSet(model) =
              {VarName(q[1], q[2], r) : q \in SameGenderPairs, r \in RoomIndices}
        /\ Cardinality(NameSet(model)) = Len(model.varNames)
        /\ \A k \in 1..Len(returned.assignments) :
              Residents[RowOfName(returned.assignments[k].a)].Gender
                = Residents[RowOfName(returned.assignments[k].b)].Gender

\* a roster with both genders was solved and decoded into at least one pair
C1_Witness ==
    /\ Built
    /\ returned.kind = "ok"
    /\ Len(returned.assignments) >= 1
    /\ \E p, q \in 1..Len(Residents) : Residents[p].Gender # Residents[q].Gender

\* C2: in every answer that satisfies the built constraints, each resident
\* is in at most one accepted variable, over all rooms and partners, and so
\* in at most one decoded assignment.
C2_AtMostOnePair ==
    /\ Built =>
          \A i \in ResidentIndices :
              LET terms == model.subjectTo[i + 1].vars
              IN  /\ {terms[k].name : k \in 1..Len(terms)} =
                        {VarName(q[1], q[2], r) :
                            q \in {p \in SameGenderPairs : p[1] = i \/ p[2] = i},
                            r \in RoomIndices}
                  /\ Cardinality({terms[k].name : k \in 1..Len(terms)}) = Len(terms)
                  /\ \A k \in 1..Len(terms) : terms[k].coef = 1
    /\ returned.kind = "ok" =>
        \A i \in ResidentIndices :
            /\ Cardinality({t \in AcceptedTriples : t[2] = i \/ t[3] = i}) <= 1
            /\ Cardinality({k \in 1..Len(returned.assignments) :
                              \/ returned.assignments[k].a = Residents[i + 1].Name
                              \/ returned.assignments[k].b = Residents[i + 1].Name}) <= 1

\* an answer over two rooms, each of which could have taken the accepted pair
C2_Witness ==
    /\ returned.kind = "ok"
    /\ Len(RoomTable) >= 2
    /\ Len(returned.assignments) >= 1
    /\ \A r \in 1..Len(RoomTable) : ToNumber(RoomTable[r].Capacity) >= 2

\* C3: in every answer that satisfies the built constraints, twice the
\* number of assignments decoded into a room does not exceed its Capacity.
C3_RoomCapacity ==
    returned.kind = "ok" =>
        \A r \in RoomIndices :
            /\ 2 * Cardinality({t \in AcceptedTriples : t[1] = r})
                  <= ToNumber(RoomTable[r + 1].Capacity)
            /\ 2 * Cardinality({k \in 1..Len(returned.assignments) :
                                  returned.assignments[k].room = RoomTable[r + 1].Room})
                  <= ToNumber(RoomTable[r + 1].Capacity)

\* a room of capacity 4 holds two pairs
C3_Witness ==
    /\ returned.kind = "ok"
    /\ \E r \in RoomIndices :
          /\ RoomTable[r + 1].Capacity = "4"
          /\ Cardinality({t \in AcceptedTriples : t[1] = r}) = 2

\* C4: when the solver answers without a solution, the request ends in the
\* single thrown failure: no assignments/unassigned result, the solver was
\* invoked once and is not invoked again, and no output file is published.
C4_FailureIsTerminal ==
    solverResult.kind \in {"noresult", "novars"} =>
        /\ returned = Thrown
        /\ solveCalls = 1
        /\ pc = "idle"
        /\ ~loading
        /\ outputUrl = NoUrl
        /\ error # ""

C4_Witness ==
    /\ solverResult.kind = "novars"
    /\ returned = Thrown
    /\ FeasibleSets(model) = {}
    /\ Len(Residents) >= 1

TripleBefore(s, t) ==
    \/ s[1] < t[1]
    \/ s[1] = t[1] /\ s[2] < t[2]
    \/ s[1] = t[1] /\ s[2] = t[2] /\ s[3] < t[3]

RECURSIVE SortedTriples(_)
SortedTriples(T) ==
    IF T = {} THEN <<>>
    ELSE LET first == CHOOSE s \in T : \A t \in T \ {s} : TripleBefore(s, t)
         IN  <<first>> \o SortedTriples(T \ {first})

RECURSIVE Ascending(_)
Ascending(I) ==
    IF I = {} THEN <<>>
    ELSE LET first == CHOOSE i \in I : \A k \in I : i <= k
         IN  <<first>> \o Ascending(I \ {first})

\* C6: the assignments come out room-major, then by ascending first and
\* second resident index, whatever the order of the solver's vars; the
\* result is determined by the tables and the set of accepted variables, so
\* two solves that receive the same mapping return the same lists.
C6_DecodeOrder ==
    returned.kind = "ok" =>
        LET order == SortedTriples(AcceptedTriples)
            paired == UNION {{t[2], t[3]} : t \in AcceptedTriples}
            rest == Ascending(ResidentIndices \ paired)
        IN  /\ returned.assignments =
                  [k \in 1..Len(order) |->
                      [a    |-> Residents[order[k][2] + 1].Name,
                       b    |-> Residents[order[k][3] + 1].Name,
                       room |-> RoomTable[order[k][1] + 1].Room]]
            /\ returned.unassigned = [k \in 1..Len(rest) |-> Residents[rest[k] + 1].Name]

\* two pairs decoded from an answer listed in the opposite order
C6_Witness ==
    /\ returned.kind = "ok"
    /\ Len(returned.assignments) >= 2
    /\ Len(model.varNames) >= 2
    /\ solverResult.vars[1].name = model.varNames[Len(model.varNames)]

ScenarioInput ==
    /\ parsed.preferences = [ok |-> TRUE, data |->
          <<PreferenceRow(1, "M"), PreferenceRow(2, "M"),
            PreferenceRow(3, "F"), PreferenceRow(4, "F")>>]
    /\ parsed.rooms = [ok |-> TRUE, data |->
          <<[Room |-> "R1", Capacity |-> "2"], [Room |-> "R2", Capacity |-> "2"]>>]
    /\ parsed.key = [ok |-> TRUE, data |-> ScenarioKey]

\* the valuation the solver answered with
AnsweredValuation ==
    Valuation(model, {v \in NameSet(model) : Accepted(solverResult.vars, v)})

\* C8: for A(M), B(M), C(F), D(F) with cleanliness codes 1, 1, 4, 3 at
\* weight 1 and rooms R1, R2 of capacity 2, every cost-minimal solution
\* decodes to A with B (cost 0) and C with D (cost 1) in two distinct rooms,
\* with nobody unassigned.
C8_Scenario ==
    (ScenarioInput /\ Built) =>
        /\ norm.prefMatrix = <<<<1>>, <<1>>, <<4>>, <<3>>>>
        /\ \A k \in 1..Len(model.objective.vars) :
              LET x == model.objective.vars[k]
              IN  /\ x.name \in {VarName(0, 1, r) : r \in 0..1} => x.coef = 0
                  /\ x.name \in {VarName(2, 3, r) : r \in 0..1} => x.coef = 1
        /\ (returned.kind = "ok" /\ Optimal(model, AnsweredValuation)) =>
              /\ ObjectiveValue(model, AnsweredValuation) = 1
              /\ Len(returned.assignments) = 2
              /\ {<<returned.assignments[k].a, returned.assignments[k].b>> : k \in 1..2}
                    = {<<"A", "B">>, <<"C", "D">>}
              /\ returned.assignments[1].room # returned.assignments[2].room
              /\ {returned.assignments[k].room : k \in 1..2} = {"R1", "R2"}
              /\ returned.unassigned = <<>>

C8_Witness ==
    /\ ScenarioInput
    /\ returned.kind = "ok"
    /\ Optimal(model, AnsweredValuation)
    /\ returned.assignments[1] = [a |-> "C", b |-> "D", room |-> "R1"]

\* C10: a result decoded from an answer that satisfies the built constraints
\* has every resident in exactly one pair: nobody is unassigned and there
\* are half as many assignments as residents.
C10_EveryonePaired ==
    returned.kind = "ok" =>
        /\ Feasible(model, AnsweredValuation)
        /\ returned.unassigned = <<>>
        /\ 2 * Len(returned.assignments) = Len(Residents)
        /\ \A i \in ResidentIndices :
              Cardinality({k \in 1..Len(returned.assignments) :
                             \/ returned.assignments[k].a = Residents[i + 1].Name
                             \/ returned.assignments[k].b = Residents[i + 1].Name}) = 1

C10_Witness ==
    /\ returned.kind = "ok"
    /\ Len(Residents) = 4
    /\ Len(returned.assignments) = 2
    /\ returned.unassigned = <<>>

\* the attribute vectors of the scored pair
VectorOf(i) == norm.prefMatrix[i + 1]

WeightsNonNegative == \A k \in 1..Len(norm.weights) : norm.weights[k] >= 0

\* C7 as stated: with non-negative weights the cost is non-negative, and it
\* is 0 exactly when the two vectors agree on every category of the key.
C7_AsStated ==
    (pc = "scored" /\ WeightsNonNegative) =>
        /\ score.value >= 0
        /\ score.value = 0 <=>
              \A k \in 1..Len(norm.categories) :
                  VectorOf(score.i)[k] = VectorOf(score.j)[k]

\* C7: with non-negative weights the cost is non-negative, and it is 0
\* exactly when the two vectors agree on every category whose weight is
\* positive.
C7_CostZeroIffEqual ==
    (pc = "scored" /\ WeightsNonNegative) =>
        /\ score.value >= 0
        /\ score.value = 0 <=>
              \A k \in 1..Len(norm.categories) :
                  norm.weights[k] > 0 => VectorOf(score.i)[k] = VectorOf(score.j)[k]

\* two residents who differ only on a category of weight 0: the cost is 0
C7_Witness ==
    /\ pc = "scored"
    /\ WeightsNonNegative
    /\ score.i # score.j
    /\ score.value = 0
    /\ \E k \in 1..Len(norm.categories) : norm.weights[k] > 0
    /\ \E k \in 1..Len(norm.categories) :
          norm.weights[k] = 0 /\ VectorOf(score.i)[k] # VectorOf(score.j)[k]

\* a cell that is written as a number
NumericLiterals == DOMAIN NumberTable \ {""}

\* C9: the code of a resident for a category is the raw value when it is a
\* number, else the ordinal code the key maps the label to, else (column
\* missing, label not mapped) the neutral 2; a vector has one code per
\* category of the key, in the key's order.
C9_AsStated ==
    pc # "idle" =>
        /\ norm.categories = Categories(parsed.key.data)
        /\ \A p \in 1..Len(Residents) :
              /\ Len(norm.prefMatrix[p]) = Len(norm.categories)
              /\ \A c \in 1..Len(norm.categories) :
                    LET cat == norm.categories[c]
                        raw == Get(Residents[p], cat)
                    IN  norm.prefMatrix[p][c] =
                           IF raw \in NumericLiterals THEN NumberTable[raw]
                           ELSE IF raw \in DOMAIN norm.mappings[cat]
                                THEN norm.mappings[cat][raw]
                                ELSE 2

====
